---- MODULE Spec2Model ----
(***************************************************************************)
(* DD-Guard gateway (ddguard.py): the polling cycle upload_live_data, the  *)
(* threading.Timer chain that re-arms it, and the signal handler           *)
(* on_sigterm, as a state machine.  One thread per invocation of           *)
(* upload_live_data: thread 0 is the start-up thread (lines 450-451),      *)
(* thread k >= 1 is the thread of the k-th threading.Timer.  Each thread   *)
(* steps through the statements of upload_live_data one at a time, so the  *)
(* guard's test (line 334) and its set (line 337) are separate steps.      *)
(*                                                                         *)
(* Time is untimed: a started timer may fire at any later step.  Clock     *)
(* values are integers in ticks of 1/TicksPerSec second, so that the       *)
(* int() truncation of line 380 is modelled.                               *)
(*                                                                         *)
(* Spec is the script as it is run: it starts at the module-level          *)
(* statements, and the dict literal of lines 107-122 decides whether it    *)
(* ever gets to line 451.  SpecCycles is the functions of the module       *)
(* (upload_live_data, blynk_upload, on_sigterm) taken by themselves: it    *)
(* starts where lines 124-130 and 446-451 leave the globals, with          *)
(* upload_live_data.active = False and the start-up thread launched, the   *)
(* assignment of lines 107-122 left out.  SpecBlynk is blynk_upload taken  *)
(* by itself.  Timer.start() is threading.Timer as documented: it also     *)
(* starts when the main thread has already left through sys.exit().        *)
(***************************************************************************)
EXTENDS Integers, FiniteSets, Sequences, TLC

\* ---------------------------------------------------------------- bounds
MaxTimers == 3          \* Timer objects created in one behaviour
MaxDrift == 1           \* |pumpTimeDrift| in ticks
TicksPerSec == 2        \* clock resolution of the model

\* ---------------------------------------------------- program constants
UPDATE_INTERVAL == 300
RETRY_INTERVAL == 180
RETRY_DELAY == 5
MAX_RETRIES_AT_FAILURE == 3
TIMER_MARGIN == 10      \* the literal 10 of line 389
BGL_DISABLED == 1000    \* the literal 1000 of lines 186 and 188

\* virtual pins (lines 91-97) and colours (lines 100-105)
VPIN_SENSOR == 1
VPIN_BATTERY == 2
VPIN_UNITS == 3
VPIN_ARROWS == 4
VPIN_STATUS == 5
VPIN_ACTINS == 6
VPIN_LASTBOLUS == 7
BLYNK_WHITE == "#F0F0F0"
BLYNK_GREEN == "#23C48E"
BLYNK_BLUE == "#04C0F8"
BLYNK_YELLOW == "#ED9D00"
BLYNK_RED == "#D3435C"

\* Python None is the empty tuple, a value v that may be None is <<v>>
None == <<>>
Some(v) == <<v>>
Val(x) == x[1]

\* class SENSOR_EXCEPTIONS of sensor_codes.py: every attribute it defines.
\* It defines no SENSOR_LOST and no SENSOR_LOST_STR, the names ddguard.py
\* reads at lines 121 and 359.
SENSOR_EXCEPTIONS ==
  [ SENSOR_OK |-> 768,                SENSOR_OK_STR |-> "Sensor OK",
    SENSOR_INIT |-> 769,              SENSOR_INIT_STR |-> "Sensor warming up",
    SENSOR_CAL_NEEDED |-> 770,        SENSOR_CAL_NEEDED_STR |-> "Calibrate sensor now ",
    SENSOR_ERROR |-> 771,             SENSOR_ERROR_STR |-> "Updating sensor",
    SENSOR_CAL_ERROR |-> 772,         SENSOR_CAL_ERROR_STR |-> "Calibration error",
    SENSOR_CHANGE_SENSOR |-> 773,     SENSOR_CHANGE_SENSOR_STR |-> "Change sensor",
    SENSOR_END_OF_LIFE |-> 774,       SENSOR_END_OF_LIFE_STR |-> "Sensor expired",
    SENSOR_NOT_READY |-> 775,         SENSOR_NOT_READY_STR |-> "Sensor not ready",
    SENSOR_READING_HIGH |-> 776,      SENSOR_READING_HIGH_STR |-> "Sensor reading too high",
    SENSOR_READING_LOW |-> 777,       SENSOR_READING_LOW_STR |-> "Sensor reading too low",
    SENSOR_CAL_PENDING |-> 778,       SENSOR_CAL_PENDING_STR |-> "Calibrating sensor",
    SENSOR_CHANGE_CAL_ERROR |-> 779,  SENSOR_CHANGE_CAL_ERROR_STR |-> "Cal error - Change sensor",
    SENSOR_TIME_UNKNOWN |-> 780,      SENSOR_TIME_UNKNOWN_STR |-> "Time unknown" ]

\* Python attribute lookup cls.name: succeeds iff the class defines name,
\* otherwise AttributeError.
HasAttr(cls, name) == name \in DOMAIN cls

\* --------------------------------------------------------------- domains
Threads == 0 .. MaxTimers
TimerIds == 1 .. MaxTimers

\* data["pumpAlert"]: the six alert flags blynk_upload reads
NoAlerts ==
  [ alertSuspend |-> FALSE, alertSuspendLow |-> FALSE, alertOnLow |-> FALSE,
    alertOnHigh |-> FALSE, alertBeforeLow |-> FALSE, alertBeforeHigh |-> FALSE ]

\* what cnl24driverlib.readLiveData() can return (the fields the cycle and
\* blynk_upload use); insulinUnitsRemaining is in tenths of a unit
Readings == {105, SENSOR_EXCEPTIONS.SENSOR_TIME_UNKNOWN}
Snapshots ==
  [ pumpTime : {0}, pumpTimeDrift : (-MaxDrift) .. MaxDrift,
    sensorBGLTimestamp : {0}, sensorBGL : Readings, lastBolusTime : {0},
    pumpAlert : {NoAlerts}, trendArrow : {"flat"}, activeInsulin : {1},
    sensorCalMinutesRemaining : {30}, batteryLevelPercentage : {60},
    sensorBatteryLevelPercentage : {40}, insulinUnitsRemaining : {400},
    lastBolusAmount : {2} ]

\* the text of a bgl option in the configuration file: <<n>> when int()
\* parses it to n, <<>> when int() raises
RawConfigs ==
  { [bgl_low |-> <<70>>, bgl_pre_low |-> <<80>>, bgl_pre_high |-> <<180>>, bgl_high |-> <<250>>],
    [bgl_low |-> <<70>>, bgl_pre_low |-> <<80>>, bgl_pre_high |-> <<0>>, bgl_high |-> <<0>>],
    [bgl_low |-> <<70>>, bgl_pre_low |-> <<80>>, bgl_pre_high |-> <<0>>, bgl_high |-> <<250>>],
    [bgl_low |-> <<70>>, bgl_pre_low |-> <<80>>, bgl_pre_high |-> <<180>>, bgl_high |-> <<0>>],
    [bgl_low |-> <<70>>, bgl_pre_low |-> <<80>>, bgl_pre_high |-> <<>>, bgl_high |-> <<>>] }

\* inputs of blynk_upload taken alone: readings around the thresholds and
\* codes of sensor_codes.py, alert flags, values around the band limits,
\* a bolus at the sensor timestamp and one UPDATE_INTERVAL before it
BenchReadings ==
  { 60, 75, 105, 200, 260, SENSOR_EXCEPTIONS.SENSOR_OK - 1,
    SENSOR_EXCEPTIONS.SENSOR_OK,
    SENSOR_EXCEPTIONS.SENSOR_INIT, SENSOR_EXCEPTIONS.SENSOR_TIME_UNKNOWN }
BenchAlerts ==
  { NoAlerts,
    [NoAlerts EXCEPT !.alertSuspend = TRUE, !.alertOnHigh = TRUE],
    [NoAlerts EXCEPT !.alertSuspendLow = TRUE],
    [NoAlerts EXCEPT !.alertOnLow = TRUE, !.alertBeforeHigh = TRUE],
    [NoAlerts EXCEPT !.alertBeforeLow = TRUE] }
BenchSnapshots ==
  [ pumpTime : {0}, pumpTimeDrift : {0},
    sensorBGLTimestamp : {0}, sensorBGL : BenchReadings,
    lastBolusTime : {0, -(UPDATE_INTERVAL * TicksPerSec)},
    pumpAlert : BenchAlerts, trendArrow : {"flat"}, activeInsulin : {1},
    sensorCalMinutesRemaining : {30}, batteryLevelPercentage : {25, 51},
    sensorBatteryLevelPercentage : {26, 50},
    insulinUnitsRemaining : {250, 255, 750, 760}, lastBolusAmount : {2} ]
\* values of the global lastBolusTime: unset, or the seconds of a bolus
BenchStored == { None, Some(0), Some(-UPDATE_INTERVAL) }

\* datetime.datetime.now() at line 380, in ticks
NowRange == { UPDATE_INTERVAL * TicksPerSec + d : d \in {-21, -20, -1, 0, 1, 20} }

\* a Timer object that has not been created yet
NoTimer == [state |-> "none", started |-> FALSE, delay |-> 0, by |-> -1]

\* ----------------------------------------------------------- read_config
\* lines 135-140
to_int(string) == IF string = <<>> THEN 0 ELSE string[1]

\* variant: a threshold of 0 is kept as it is
read_configKeepsZero(raw) ==
  [ bgl_low_val |-> to_int(raw.bgl_low),
    bgl_pre_low_val |-> to_int(raw.bgl_pre_low),
    bgl_pre_high_val |-> to_int(raw.bgl_pre_high),
    bgl_high_val |-> to_int(raw.bgl_high) ]

\* lines 176-188: the four thresholds, 0 replaced for the two high ones
read_config(raw) ==
  LET pre_high == to_int(raw.bgl_pre_high)
      high == to_int(raw.bgl_high)
  IN [ bgl_low_val |-> to_int(raw.bgl_low),
       bgl_pre_low_val |-> to_int(raw.bgl_pre_low),
       bgl_pre_high_val |-> IF pre_high = 0 THEN BGL_DISABLED ELSE pre_high,
       bgl_high_val |-> IF high = 0 THEN BGL_DISABLED ELSE high ]

VARIABLES
  active,       \* upload_live_data.active
  cycleCount,   \* global cycleCount
  cycleTimer,   \* global cycleTimer: 0 is None, k names the k-th Timer
  lastBolusTime,\* global lastBolusTime
  timers,       \* the Timer objects: state, delay in seconds, creating thread
  nTimers,      \* Timer objects created so far
  blynk,        \* global blynk is not None
  nightscout,   \* global nightscout is not None
  disconnected, \* blynk.disconnect() has been called
  mainPc,       \* main thread: "load" (module-level statements), "crashed",
                \* "run" (main loop), "cancel" (inside on_sigterm), "exited"
                \* (after sys.exit(), waiting for the other threads),
                \* "again" (inside on_sigterm once more), "ended" (no process)
  cfg,          \* read_config.bgl_*_val as read_config left them
  pc,           \* per thread: the statement of upload_live_data it is at
  hasFailed, numRetries, liveData, tmoSeconds,   \* locals of upload_live_data
  fetched,      \* history: the snapshot as readLiveData returned it
  attempts,     \* history: readLiveData calls of this invocation
  sleeps,       \* history: time.sleep(RETRY_DELAY) calls of this invocation
  blynkRes,     \* history: "none", "ok", "raised" or "error" for blynk_upload
  nsRes,        \* history: "none", "ok" or "raised" for nightscout.upload
  clock,        \* history: datetime.now() as read at line 380, or None
  blynkCalls    \* history: the calls blynk_upload made on the blynk object

globals == <<active, cycleCount, cycleTimer, lastBolusTime, timers, nTimers,
             blynk, nightscout, disconnected, mainPc, cfg>>
locals == <<hasFailed, numRetries, liveData, tmoSeconds>>
history == <<fetched, attempts, sleeps, blynkRes, nsRes, clock, blynkCalls>>
vars == <<globals, pc, locals, history>>

\* the process exists and runs its threads
Running == mainPc \in {"run", "cancel", "exited", "again"}

InitCycles ==
  /\ active = FALSE
  /\ cycleCount = 0
  /\ cycleTimer = 0
  /\ lastBolusTime = None
  /\ timers = [k \in TimerIds |-> NoTimer]
  /\ nTimers = 0
  /\ blynk \in BOOLEAN
  /\ nightscout \in BOOLEAN
  /\ disconnected = FALSE
  /\ mainPc = "run"
  /\ cfg \in { read_config(raw) : raw \in RawConfigs }
  /\ pc = [t \in Threads |-> IF t = 0 THEN "guard" ELSE "idle"]
  /\ hasFailed = [t \in Threads |-> FALSE]
  /\ numRetries = [t \in Threads |-> 0]
  /\ liveData = [t \in Threads |-> None]
  /\ tmoSeconds = [t \in Threads |-> 0]
  /\ fetched = [t \in Threads |-> None]
  /\ attempts = [t \in Threads |-> 0]
  /\ sleeps = [t \in Threads |-> 0]
  /\ blynkRes = [t \in Threads |-> "none"]
  /\ nsRes = [t \in Threads |-> "none"]
  /\ clock = [t \in Threads |-> None]
  /\ blynkCalls = [t \in Threads |-> << >>]

\* ---------------------------------------------------------- blynk_upload
\* lines 108-121: the entries of the dict literal, key name and value name
ExceptionEntries ==
  << <<"SENSOR_OK", "SENSOR_OK_STR">>,
     <<"SENSOR_INIT", "SENSOR_INIT_STR">>,
     <<"SENSOR_CAL_NEEDED", "SENSOR_CAL_NEEDED_STR">>,
     <<"SENSOR_ERROR", "SENSOR_ERROR_STR">>,
     <<"SENSOR_CAL_ERROR", "SENSOR_CAL_ERROR_STR">>,
     <<"SENSOR_CHANGE_SENSOR", "SENSOR_CHANGE_SENSOR_STR">>,
     <<"SENSOR_END_OF_LIFE", "SENSOR_END_OF_LIFE_STR">>,
     <<"SENSOR_NOT_READY", "SENSOR_NOT_READY_STR">>,
     <<"SENSOR_READING_HIGH", "SENSOR_READING_HIGH_STR">>,
     <<"SENSOR_READING_LOW", "SENSOR_READING_LOW_STR">>,
     <<"SENSOR_CAL_PENDING", "SENSOR_CAL_PENDING_STR">>,
     <<"SENSOR_CHANGE_CAL_ERROR", "SENSOR_CHANGE_CAL_ERROR_STR">>,
     <<"SENSOR_TIME_UNKNOWN", "SENSOR_TIME_UNKNOWN_STR">>,
     <<"SENSOR_LOST", "SENSOR_LOST_STR">> >>

\* lines 107-122: the assignment binds sensor_exception_codes only if every
\* attribute the literal reads exists; otherwise it raises AttributeError
\* and the name stays unbound
TableBuilt ==
  \A i \in 1 .. Len(ExceptionEntries) :
    /\ HasAttr(SENSOR_EXCEPTIONS, ExceptionEntries[i][1])
    /\ HasAttr(SENSOR_EXCEPTIONS, ExceptionEntries[i][2])

\* lines 107-122: the dict, when the assignment went through
sensor_exception_codes ==
  [ c \in { SENSOR_EXCEPTIONS[ExceptionEntries[i][1]] : i \in 1 .. Len(ExceptionEntries) } |->
      LET i == CHOOSE j \in 1 .. Len(ExceptionEntries) :
                 SENSOR_EXCEPTIONS[ExceptionEntries[j][1]] = c
      IN SENSOR_EXCEPTIONS[ExceptionEntries[i][2]] ]

\* blynk.virtual_write(pin, value) and blynk.set_property(pin, prop, value);
\* a written value is a tuple (<<>> is None), a property value a string
VirtualWrite(pin, value) ==
  [op |-> "virtual_write", pin |-> pin, prop |-> "", value |-> value]
SetProperty(pin, prop, value) ==
  [op |-> "set_property", pin |-> pin, prop |-> prop, value |-> value]

\* strftime("%H:%M") of a clock value in ticks: the minute of the day
HHMM(t) == (t \div (60 * TicksPerSec)) % 1440

\* int(x.strftime("%s")) and int(time.time()): whole seconds of a clock value
EpochSeconds(t) == t \div TicksPerSec

\* int(round(x)) of a value in tenths: Python 3 rounds halves to even
RoundTenths(x) ==
  LET q == x \div 10
      r == x % 10
  IN IF r < 5 THEN q
     ELSE IF r > 5 THEN q + 1
     ELSE IF q % 2 = 0 THEN q ELSE q + 1

\* lines 256-265: the colour of the BGL gauge for a regular reading
SensorColor(d, c) ==
  IF d.pumpAlert.alertSuspend \/ d.pumpAlert.alertSuspendLow
    THEN BLYNK_BLUE
  ELSE IF \/ d.sensorBGL < c.bgl_low_val
          \/ d.sensorBGL > c.bgl_high_val
          \/ d.pumpAlert.alertOnLow
          \/ d.pumpAlert.alertOnHigh
    THEN BLYNK_RED
  ELSE IF \/ d.sensorBGL < c.bgl_pre_low_val
          \/ d.sensorBGL > c.bgl_pre_high_val
          \/ d.pumpAlert.alertBeforeLow
          \/ d.pumpAlert.alertBeforeHigh
    THEN BLYNK_YELLOW
  ELSE BLYNK_GREEN

\* lines 238-273: the calls of the sensor block
SensorCalls(d, now, c) ==
  IF d.sensorBGL \in DOMAIN sensor_exception_codes
    THEN << VirtualWrite(VPIN_SENSOR, None),
            SetProperty(VPIN_SENSOR, "color", BLYNK_WHITE),
            VirtualWrite(VPIN_ARROWS, <<"--", " / ", d.activeInsulin>>),
            VirtualWrite(VPIN_STATUS,
                         <<HHMM(now), " - ", sensor_exception_codes[d.sensorBGL]>>),
            SetProperty(VPIN_STATUS, "color", BLYNK_RED) >>
    ELSE << VirtualWrite(VPIN_SENSOR, <<d.sensorBGL>>),
            SetProperty(VPIN_SENSOR, "color", SensorColor(d, c)),
            VirtualWrite(VPIN_ARROWS, <<d.trendArrow, " / ", d.activeInsulin>>),
            VirtualWrite(VPIN_STATUS,
                         <<"Updated ", HHMM(d.sensorBGLTimestamp), " - ", "Cal at ",
                           HHMM(d.sensorBGLTimestamp
                                + d.sensorCalMinutesRemaining * 60 * TicksPerSec)>>),
            SetProperty(VPIN_STATUS, "color", BLYNK_GREEN) >>

\* lines 279-284: the battery value and label for this cycleCount
BatterySlot(d, count) ==
  IF count % 2 = 0
    THEN [value |-> d.batteryLevelPercentage, label |-> "PUMP BATTERY %"]
    ELSE [value |-> d.sensorBatteryLevelPercentage, label |-> "SENSOR BATTERY %"]

\* lines 287-292
BatteryColor(v) ==
  IF v <= 25 THEN BLYNK_RED ELSE IF v <= 50 THEN BLYNK_YELLOW ELSE BLYNK_GREEN

\* lines 296-301, the value in tenths of a unit
UnitsColor(u) ==
  IF u <= 250 THEN BLYNK_RED ELSE IF u <= 750 THEN BLYNK_YELLOW ELSE BLYNK_GREEN

\* lines 279-301: the calls of the battery and reservoir bars
PumpCalls(d, count) ==
  LET slot == BatterySlot(d, count)
  IN << SetProperty(VPIN_BATTERY, "label", slot.label),
        VirtualWrite(VPIN_BATTERY, <<slot.value>>),
        SetProperty(VPIN_BATTERY, "color", BatteryColor(slot.value)),
        VirtualWrite(VPIN_UNITS, <<RoundTenths(d.insulinUnitsRemaining)>>),
        SetProperty(VPIN_UNITS, "color", UnitsColor(d.insulinUnitsRemaining)) >>

\* line 306: the value stored in the global lastBolusTime
StoredBolus(d) == Some(EpochSeconds(d.lastBolusTime))

\* lines 304-312: the bolus block
BolusCalls(d, stored, now) ==
  IF StoredBolus(d) # stored
    THEN IF EpochSeconds(now) - EpochSeconds(d.lastBolusTime) < 2 * UPDATE_INTERVAL
           THEN << VirtualWrite(VPIN_LASTBOLUS, <<d.lastBolusAmount>>) >>
           ELSE << >>
    ELSE << VirtualWrite(VPIN_ACTINS, <<d.activeInsulin>>) >>

\* variant: the no-data branch also blanks the BGL gauge
NoDataCallsBlankGauge ==
  << VirtualWrite(VPIN_SENSOR, None),
     SetProperty(VPIN_STATUS, "color", BLYNK_RED) >>

\* lines 314-316: the calls when there is no data
NoDataCalls == << SetProperty(VPIN_STATUS, "color", BLYNK_RED) >>

\* lines 229-316: blynk_upload(data) with cycleCount = count and
\* lastBolusTime = stored, the clock reading now.  calls are the blynk
\* calls of a run no call of which raises, lastBolusTime the global after
\* it, before the number of calls ahead of line 306, raised whether the
\* function raises by itself (line 238 reads sensor_exception_codes)
blynk_upload(data, count, stored, now, c) ==
  IF data = None
    THEN [calls |-> NoDataCalls, lastBolusTime |-> stored, before |-> 1,
          raised |-> FALSE]
  ELSE IF ~TableBuilt
    THEN [calls |-> << >>, lastBolusTime |-> stored, before |-> 0,
          raised |-> TRUE]
  ELSE LET d == Val(data) IN
       [calls |-> SensorCalls(d, now, c) \o PumpCalls(d, count)
                    \o BolusCalls(d, stored, now),
        lastBolusTime |-> StoredBolus(d),
        before |-> Len(SensorCalls(d, now, c)) + Len(PumpCalls(d, count)),
        raised |-> FALSE]

\* ------------------------------------------------------ upload_live_data
\* line 334: "if upload_live_data.active: return" lets the caller pass
\* exactly when the flag is not set
\* variant: the test lets every caller pass
GuardPassesAlways(a) == TRUE

GuardPasses(a) == ~a

\* variant: the early return counts as a cycle
ReturnEarlyCounting(t) ==
  /\ pc' = [pc EXCEPT ![t] = "returned"]
  /\ cycleCount' = cycleCount + 1
  /\ UNCHANGED <<active, cycleTimer, lastBolusTime, timers, nTimers, blynk,
                 nightscout, disconnected, mainPc, cfg, locals, history>>

\* lines 334-335, guard found set: return, nothing else
ReturnEarly(t) ==
  /\ pc' = [pc EXCEPT ![t] = "returned"]
  /\ UNCHANGED <<globals, locals, history>>

\* variant: the loop runs while numRetries >= 0
LoopNextOffByOne(h, n) == IF h /\ n >= 0 THEN "fetch" ELSE "drift"

\* line 342: the while condition, giving the statement that runs next
LoopNext(h, n) == IF h /\ n > 0 THEN "fetch" ELSE "drift"

\* line 351: sleep only if a further attempt follows
SleepCond(n) == n > 0

\* line 334
GuardTest(t) ==
  /\ Running
  /\ pc[t] = "guard"
  /\ IF GuardPasses(active)
       THEN /\ pc' = [pc EXCEPT ![t] = "set"]
            /\ UNCHANGED <<globals, locals, history>>
       ELSE ReturnEarly(t)

\* lines 337-341
SetActive(t) ==
  /\ Running
  /\ pc[t] = "set"
  /\ active' = TRUE
  /\ hasFailed' = [hasFailed EXCEPT ![t] = TRUE]
  /\ numRetries' = [numRetries EXCEPT ![t] = MAX_RETRIES_AT_FAILURE]
  /\ pc' = [pc EXCEPT ![t] = LoopNext(TRUE, MAX_RETRIES_AT_FAILURE)]
  /\ UNCHANGED <<cycleCount, cycleTimer, lastBolusTime, timers, nTimers,
                 blynk, nightscout, disconnected, mainPc, cfg,
                 liveData, tmoSeconds, history>>

\* lines 343-351: one pass of the loop body, readLiveData returns or raises
Fetch(t) ==
  /\ Running
  /\ pc[t] = "fetch"
  /\ attempts' = [attempts EXCEPT ![t] = @ + 1]
  /\ \/ \E d \in Snapshots :
          /\ liveData' = [liveData EXCEPT ![t] = Some(d)]
          /\ fetched' = [fetched EXCEPT ![t] = Some(d)]
          /\ hasFailed' = [hasFailed EXCEPT ![t] = FALSE]
          /\ pc' = [pc EXCEPT ![t] = LoopNext(FALSE, numRetries[t])]
          /\ UNCHANGED numRetries
     \/ /\ liveData' = [liveData EXCEPT ![t] = None]
        /\ numRetries' = [numRetries EXCEPT ![t] = @ - 1]
        /\ pc' = [pc EXCEPT ![t] =
                    IF SleepCond(numRetries[t] - 1) THEN "sleep"
                    ELSE LoopNext(hasFailed[t], numRetries[t] - 1)]
        /\ UNCHANGED <<hasFailed, fetched>>
  /\ UNCHANGED <<globals, tmoSeconds, sleeps, blynkRes, nsRes, clock, blynkCalls>>

\* line 352
Sleep(t) ==
  /\ Running
  /\ pc[t] = "sleep"
  /\ sleeps' = [sleeps EXCEPT ![t] = @ + 1]
  /\ pc' = [pc EXCEPT ![t] = LoopNext(hasFailed[t], numRetries[t])]
  /\ UNCHANGED <<globals, locals, fetched, attempts, blynkRes, nsRes, clock, blynkCalls>>

\* lines 358-360 on a snapshot: the value of liveData when the block ends
\* or raises, and whether it raised.  Line 358 has run before line 359
\* looks up SENSOR_EXCEPTIONS.SENSOR_LOST.
ShiftPumpTime(d) == [d EXCEPT !.pumpTime = @ + d.pumpTimeDrift]
ShiftSensorTime(d) == [d EXCEPT !.sensorBGLTimestamp = @ + d.pumpTimeDrift]
DriftCorrect(d) ==
  IF ~HasAttr(SENSOR_EXCEPTIONS, "SENSOR_LOST")
    THEN [data |-> ShiftPumpTime(d), raised |-> TRUE]
    ELSE [data |-> IF d.sensorBGL # SENSOR_EXCEPTIONS["SENSOR_LOST"]
                     THEN ShiftSensorTime(ShiftPumpTime(d))
                     ELSE ShiftPumpTime(d),
          raised |-> FALSE]

\* lines 355-361; an exception here is not caught: the thread ends
Drift(t) ==
  /\ Running
  /\ pc[t] = "drift"
  /\ IF liveData[t] # None
       THEN LET r == DriftCorrect(Val(liveData[t])) IN
            /\ liveData' = [liveData EXCEPT ![t] = Some(r.data)]
            /\ pc' = [pc EXCEPT ![t] = IF r.raised THEN "raised" ELSE "blynk"]
       ELSE /\ pc' = [pc EXCEPT ![t] = "blynk"]
            /\ UNCHANGED liveData
  /\ UNCHANGED <<globals, hasFailed, numRetries, tmoSeconds, history>>

\* variant: the exception of blynk_upload leaves the cycle
BlynkExceptPropagates == "raised"

\* lines 367-368 and 374-375: the bare except logs and falls through to
\* the statement after the try
BlynkExcept == "nightscout"

\* variant: after a failed nightscout upload the cycle only clears the guard
NightscoutExceptGivesUp == "clear"

NightscoutExcept == "tmo"

\* lines 364-368: blynk_upload(liveData) with the globals of the moment;
\* it raises by itself ("error"), or any of its blynk calls raises after
\* the calls before it went through ("raised"), or it returns ("ok")
BlynkUpload(t) ==
  /\ Running
  /\ pc[t] = "blynk"
  /\ IF blynk
       THEN \E now \in (IF liveData[t] = None THEN {0} ELSE NowRange) :
              LET r == blynk_upload(liveData[t], cycleCount, lastBolusTime, now, cfg) IN
              IF r.raised
                THEN /\ blynkRes' = [blynkRes EXCEPT ![t] = "error"]
                     /\ blynkCalls' = [blynkCalls EXCEPT ![t] = r.calls]
                     /\ lastBolusTime' = r.lastBolusTime
                     /\ pc' = [pc EXCEPT ![t] = BlynkExcept]
                ELSE \/ /\ blynkRes' = [blynkRes EXCEPT ![t] = "ok"]
                        /\ blynkCalls' = [blynkCalls EXCEPT ![t] = r.calls]
                        /\ lastBolusTime' = r.lastBolusTime
                        /\ pc' = [pc EXCEPT ![t] = "nightscout"]
                     \/ \E i \in 1 .. Len(r.calls) :
                          /\ blynkRes' = [blynkRes EXCEPT ![t] = "raised"]
                          /\ blynkCalls' = [blynkCalls EXCEPT ![t] = SubSeq(r.calls, 1, i - 1)]
                          /\ lastBolusTime' = IF i > r.before THEN r.lastBolusTime
                                                ELSE lastBolusTime
                          /\ pc' = [pc EXCEPT ![t] = BlynkExcept]
       ELSE /\ pc' = [pc EXCEPT ![t] = "nightscout"]
            /\ UNCHANGED <<blynkRes, lastBolusTime, blynkCalls>>
  /\ UNCHANGED <<active, cycleCount, cycleTimer, timers, nTimers, blynk,
                 nightscout, disconnected, mainPc, cfg, locals,
                 fetched, attempts, sleeps, nsRes, clock>>

\* lines 371-375
NightscoutUpload(t) ==
  /\ Running
  /\ pc[t] = "nightscout"
  /\ IF nightscout
       THEN \/ /\ nsRes' = [nsRes EXCEPT ![t] = "ok"]
               /\ pc' = [pc EXCEPT ![t] = "tmo"]
            \/ /\ nsRes' = [nsRes EXCEPT ![t] = "raised"]
               /\ pc' = [pc EXCEPT ![t] = NightscoutExcept]
       ELSE /\ pc' = [pc EXCEPT ![t] = "tmo"]
            /\ UNCHANGED nsRes
  /\ UNCHANGED <<globals, locals, fetched, attempts, sleeps, blynkRes, clock, blynkCalls>>

\* int(x) of a duration of x ticks, in seconds: truncation towards zero
IntSeconds(x) ==
  IF x >= 0 THEN x \div TicksPerSec ELSE -((-x) \div TicksPerSec)

\* lines 379-383: tmoSeconds for a snapshot, at clock reading now
TmoWithData(d, now) ==
  LET nextReading == d.sensorBGLTimestamp + UPDATE_INTERVAL * TicksPerSec
      tmo == IntSeconds(nextReading - now)
  IN IF tmo < 0 THEN RETRY_INTERVAL ELSE tmo

\* line 385
TmoNoData == RETRY_INTERVAL

\* lines 378-386
ComputeTmo(t) ==
  /\ Running
  /\ pc[t] = "tmo"
  /\ IF liveData[t] # None
       THEN \E now \in NowRange :
              /\ tmoSeconds' = [tmoSeconds EXCEPT ![t] = TmoWithData(Val(liveData[t]), now)]
              /\ clock' = [clock EXCEPT ![t] = Some(now)]
       ELSE /\ tmoSeconds' = [tmoSeconds EXCEPT ![t] = TmoNoData]
            /\ UNCHANGED clock
  /\ pc' = [pc EXCEPT ![t] = "timer"]
  /\ UNCHANGED <<globals, hasFailed, numRetries, liveData,
                 fetched, attempts, sleeps, blynkRes, nsRes, blynkCalls>>

\* variant: the interval without the margin
TimerDelayNoMargin(tmo) == tmo

\* line 389: the interval handed to threading.Timer
TimerDelay(tmo) == tmo + TIMER_MARGIN

\* line 389: cycleTimer = threading.Timer(tmoSeconds+10, upload_live_data)
CreateTimer(t) ==
  /\ Running
  /\ pc[t] = "timer"
  /\ nTimers < MaxTimers
  /\ nTimers' = nTimers + 1
  /\ timers' = [timers EXCEPT ![nTimers + 1] =
                  [state |-> "new", started |-> FALSE,
                   delay |-> TimerDelay(tmoSeconds[t]), by |-> t]]
  /\ cycleTimer' = nTimers + 1
  /\ pc' = [pc EXCEPT ![t] = "start"]
  /\ UNCHANGED <<active, cycleCount, lastBolusTime, blynk, nightscout,
                 disconnected, mainPc, cfg, locals, history>>

\* Timer.start(): the timer thread waits for the interval unless the timer
\* was cancelled before
TimerStarted(s) == IF s = "new" THEN "pending" ELSE s

\* Timer.cancel(): stops a timer that has not fired yet
TimerCancelled(s) == IF s \in {"new", "pending"} THEN "cancelled" ELSE s

\* line 390: cycleTimer.start()
StartTimer(t) ==
  /\ Running
  /\ pc[t] = "start"
  /\ cycleTimer # 0
  /\ timers' = [timers EXCEPT ![cycleTimer].state = TimerStarted(@),
                              ![cycleTimer].started = TRUE]
  /\ pc' = [pc EXCEPT ![t] = "count"]
  /\ UNCHANGED <<active, cycleCount, cycleTimer, lastBolusTime, nTimers,
                 blynk, nightscout, disconnected, mainPc, cfg, locals, history>>

\* line 392
Count(t) ==
  /\ Running
  /\ pc[t] = "count"
  /\ cycleCount' = cycleCount + 1
  /\ pc' = [pc EXCEPT ![t] = "clear"]
  /\ UNCHANGED <<active, cycleTimer, lastBolusTime, timers, nTimers, blynk,
                 nightscout, disconnected, mainPc, cfg, locals, history>>

\* line 393
Clear(t) ==
  /\ Running
  /\ pc[t] = "clear"
  /\ active' = FALSE
  /\ pc' = [pc EXCEPT ![t] = "done"]
  /\ UNCHANGED <<cycleCount, cycleTimer, lastBolusTime, timers, nTimers,
                 blynk, nightscout, disconnected, mainPc, cfg, locals, history>>

\* variant: the timer stays armed after it has run its function
TimerExpiredRepeats(s) == s

\* Timer.run(): the wait is over once, the function is called once
TimerExpired(s) == IF s = "pending" THEN "fired" ELSE s

\* a pending threading.Timer expires: its thread calls upload_live_data
TimerFire(k) ==
  /\ Running
  /\ timers[k].state = "pending"
  /\ pc[k] = "idle"
  /\ timers' = [timers EXCEPT ![k].state = TimerExpired(@)]
  /\ pc' = [pc EXCEPT ![k] = "guard"]
  /\ UNCHANGED <<active, cycleCount, cycleTimer, lastBolusTime, nTimers,
                 blynk, nightscout, disconnected, mainPc, cfg, locals, history>>

\* ---------------------------------------------------- blynk_upload alone
\* a thread about to call blynk_upload(liveData), for every input of the
\* function: the data, the thresholds, cycleCount and lastBolusTime
InitBlynk ==
  /\ active = TRUE
  /\ cycleCount \in 0 .. 1
  /\ cycleTimer = 0
  /\ lastBolusTime \in BenchStored
  /\ timers = [k \in TimerIds |-> NoTimer]
  /\ nTimers = 0
  /\ blynk = TRUE
  /\ nightscout \in BOOLEAN
  /\ disconnected = FALSE
  /\ mainPc = "run"
  /\ cfg \in { read_config(raw) : raw \in RawConfigs }
  /\ pc = [t \in Threads |-> IF t = 0 THEN "blynk" ELSE "idle"]
  /\ liveData \in { [t \in Threads |-> IF t = 0 THEN x ELSE None] :
                      x \in {None} \cup { Some(d) : d \in BenchSnapshots } }
  /\ fetched = liveData
  /\ hasFailed = [t \in Threads |-> t = 0 /\ liveData[t] = None]
  /\ numRetries = [t \in Threads |->
                     IF t # 0 THEN 0
                     ELSE IF liveData[t] = None THEN 0 ELSE MAX_RETRIES_AT_FAILURE]
  /\ attempts = [t \in Threads |->
                   IF t # 0 THEN 0
                   ELSE IF liveData[t] = None THEN MAX_RETRIES_AT_FAILURE ELSE 1]
  /\ sleeps = [t \in Threads |->
                 IF t = 0 /\ liveData[t] = None THEN MAX_RETRIES_AT_FAILURE - 1 ELSE 0]
  /\ tmoSeconds = [t \in Threads |-> 0]
  /\ blynkRes = [t \in Threads |-> "none"]
  /\ nsRes = [t \in Threads |-> "none"]
  /\ clock = [t \in Threads |-> None]
  /\ blynkCalls = [t \in Threads |-> << >>]

NextBlynk == \E t \in Threads : BlynkUpload(t)

SpecBlynk == InitBlynk /\ [][NextBlynk]_vars

\* ------------------------------------------------------------ on_sigterm
\* lines 209-213: the signal arrives in the main thread, in the main loop
\* or, the handler staying installed, while the main thread waits for the
\* other threads after sys.exit(); blynk.disconnect() is called when blynk
\* is set, whatever it raises is dropped
SigDisconnect ==
  /\ mainPc \in {"run", "exited"}
  /\ disconnected' = blynk
  /\ mainPc' = IF mainPc = "run" THEN "cancel" ELSE "again"
  /\ UNCHANGED <<active, cycleCount, cycleTimer, lastBolusTime, timers,
                 nTimers, blynk, nightscout, cfg, pc, locals, history>>

\* lines 214-220: cancel the timer cycleTimer names, then sys.exit().
\* Raised in the main loop it ends the main thread, which then waits for
\* the other threads; raised in that wait it ends the wait and the process
SigCancel ==
  /\ mainPc \in {"cancel", "again"}
  /\ timers' = IF cycleTimer # 0
                 THEN [timers EXCEPT ![cycleTimer].state = TimerCancelled(@)]
                 ELSE timers
  /\ mainPc' = IF mainPc = "cancel" THEN "exited" ELSE "ended"
  /\ UNCHANGED <<active, cycleCount, cycleTimer, lastBolusTime, nTimers,
                 blynk, nightscout, disconnected, cfg, pc, locals, history>>

\* a thread that is not finished: an invocation of upload_live_data in
\* progress, or a started timer waiting for its interval
Live(t) == pc[t] \notin {"idle", "done", "returned", "raised"}
Waiting(k) == timers[k].state = "pending"

\* after line 220: the wait of the main thread is over when no other
\* thread is left, and the process ends
ProcessExit ==
  /\ mainPc = "exited"
  /\ \A t \in Threads : ~Live(t)
  /\ \A k \in TimerIds : ~Waiting(k)
  /\ mainPc' = "ended"
  /\ UNCHANGED <<active, cycleCount, cycleTimer, lastBolusTime, timers, nTimers,
                 blynk, nightscout, disconnected, cfg, pc, locals, history>>

\* ------------------------------------------------- the functions by themselves
NextCycles ==
  \/ \E t \in Threads :
       \/ GuardTest(t)
       \/ SetActive(t)
       \/ Fetch(t)
       \/ Sleep(t)
       \/ Drift(t)
       \/ BlynkUpload(t)
       \/ NightscoutUpload(t)
       \/ ComputeTmo(t)
       \/ CreateTimer(t)
       \/ StartTimer(t)
       \/ Count(t)
       \/ Clear(t)
  \/ \E k \in TimerIds : TimerFire(k)
  \/ SigDisconnect
  \/ SigCancel
  \/ ProcessExit

SpecCycles == InitCycles /\ [][NextCycles]_vars

\* ------------------------------------------------------------- the script
\* python3 ddguard.py before line 107: nothing assigned yet, no thread; the
\* configuration file and the flags derived from it (lines 401-430) are
\* what the run would read
Init ==
  /\ active = FALSE
  /\ cycleCount = 0
  /\ cycleTimer = 0
  /\ lastBolusTime = None
  /\ timers = [k \in TimerIds |-> NoTimer]
  /\ nTimers = 0
  /\ blynk \in BOOLEAN
  /\ nightscout \in BOOLEAN
  /\ disconnected = FALSE
  /\ mainPc = "load"
  /\ cfg \in { read_config(raw) : raw \in RawConfigs }
  /\ pc = [t \in Threads |-> "idle"]
  /\ hasFailed = [t \in Threads |-> FALSE]
  /\ numRetries = [t \in Threads |-> 0]
  /\ liveData = [t \in Threads |-> None]
  /\ tmoSeconds = [t \in Threads |-> 0]
  /\ fetched = [t \in Threads |-> None]
  /\ attempts = [t \in Threads |-> 0]
  /\ sleeps = [t \in Threads |-> 0]
  /\ blynkRes = [t \in Threads |-> "none"]
  /\ nsRes = [t \in Threads |-> "none"]
  /\ clock = [t \in Threads |-> None]
  /\ blynkCalls = [t \in Threads |-> << >>]

\* lines 107-451, the module-level statements: the dict literal of lines
\* 107-122 raises AttributeError when an attribute it reads is missing,
\* nothing catches it and the process ends with exit code 1; otherwise the
\* script goes on to start the first thread (line 451) and the main loop
Load ==
  /\ mainPc = "load"
  /\ IF TableBuilt
       THEN /\ mainPc' = "run"
            /\ pc' = [pc EXCEPT ![0] = "guard"]
       ELSE /\ mainPc' = "crashed"
            /\ UNCHANGED pc
  /\ UNCHANGED <<active, cycleCount, cycleTimer, lastBolusTime, timers, nTimers,
                 blynk, nightscout, disconnected, cfg, locals, history>>

Next == Load \/ NextCycles

Spec == Init /\ [][Next]_vars

\* -------------------------------------------------------------- helpers
\* statements between the guard's set (line 337 done) and its clear
\* (line 393 not yet done)
BodyPcs == {"fetch", "sleep", "drift", "blynk", "nightscout", "tmo",
            "timer", "start", "count", "clear"}
InBody(t) == pc[t] \in BodyPcs

\* the invocation has ended: returned normally or died of an exception
Ended(t) == pc[t] \in {"done", "raised"}

\* timers this invocation has started
StartedBy(t) == {k \in TimerIds : timers[k].by = t /\ timers[k].started}

TypeOK ==
  /\ active \in BOOLEAN
  /\ cycleCount \in 0 .. MaxTimers + 1
  /\ cycleTimer \in 0 .. MaxTimers
  /\ nTimers \in 0 .. MaxTimers
  /\ mainPc \in {"load", "crashed", "run", "cancel", "exited", "again", "ended"}
  /\ \A t \in Threads : numRetries[t] \in 0 .. MAX_RETRIES_AT_FAILURE
  /\ cfg \in [bgl_low_val : Nat, bgl_pre_low_val : Nat,
             bgl_pre_high_val : Nat \ {0}, bgl_high_val : Nat \ {0}]
  /\ \A t \in Threads : blynkRes[t] \in {"none", "ok", "raised", "error"}
  /\ \A t \in Threads : Len(blynkCalls[t]) <= 11

\* ================================================================ claims

\* C1: under every interleaving of the start-up thread and the timer
\* threads, at most one invocation of upload_live_data is between setting
\* the guard (line 337) and clearing it (line 393).
C1_AtMostOneInBody == Cardinality({t \in Threads : InBody(t)}) <= 1

\* a timer thread tests the guard while the invocation that armed it has
\* not yet cleared the guard
C1_Witness ==
  \E t, u \in Threads : t # u /\ pc[t] \in {"count", "clear"} /\ pc[u] = "guard"

\* C2: every invocation that passes the guard starts exactly one
\* threading.Timer before it ends, whatever the outcome of the cycle
\* (fetch succeeded, all retries failed, an adapter raised, adapters off).
C2_ArmsExactlyOneTimer ==
  \A t \in Threads :
    /\ Cardinality(StartedBy(t)) <= 1
    /\ Ended(t) => Cardinality(StartedBy(t)) = 1

\* C3: an unhandled error inside a cycle still clears the guard and still
\* arms the next timer: the guard is never set while no invocation is in
\* the body, and an invocation that died has started its timer.
C3_GuardClearedOnError ==
  /\ active => \E t \in Threads : InBody(t)
  /\ \A t \in Threads : pc[t] = "raised" => Cardinality(StartedBy(t)) = 1

\* C4: an invocation that finds the guard set returns at once and changes
\* nothing (no fetch, no drift correction, no upload, no timer; cycleCount,
\* cycleTimer, lastBolusTime and the guard unchanged), and the invocation
\* in progress still arms exactly one timer.
C4_Step ==
  \A t \in Threads :
    (pc[t] = "guard" /\ active /\ pc'[t] # pc[t]) =>
      /\ pc'[t] = "returned"
      /\ UNCHANGED <<active, cycleCount, cycleTimer, lastBolusTime, timers,
                     nTimers, disconnected, locals, history>>
      /\ attempts'[t] = 0 /\ sleeps'[t] = 0 /\ liveData'[t] = None
      /\ blynkRes'[t] = "none" /\ nsRes'[t] = "none"
      /\ StartedBy(t)' = {}
      /\ \A u \in Threads \ {t} : pc'[u] = pc[u]
C4_Returned ==
  \A t \in Threads :
    pc[t] = "returned" =>
      /\ attempts[t] = 0 /\ sleeps[t] = 0 /\ liveData[t] = None
      /\ blynkRes[t] = "none" /\ nsRes[t] = "none" /\ StartedBy(t) = {}
      /\ \A u \in Threads : pc[u] = "done" => Cardinality(StartedBy(u)) = 1
C4_GuardedCallIsNoOp == [][C4_Step /\ C4_Returned']_vars

\* an invocation returned at the guard and the one that was in progress
\* has finished with its one timer
C4_Witness ==
  \E t, u \in Threads :
    pc[t] = "returned" /\ pc[u] = "done" /\ timers[t].by = u
      /\ Cardinality(StartedBy(u)) = 1

\* C5: per cycle readLiveData is called at least once and at most
\* MAX_RETRIES_AT_FAILURE times, no call follows a success, a RETRY_DELAY
\* sleep happens only between two calls, and a cycle whose calls all failed
\* has no data and goes on to the uploads and the timer without raising.
PastLoop(t) == pc[t] \in {"drift", "blynk", "nightscout", "tmo", "timer",
                          "start", "count", "clear", "done", "raised"}
PastUploads(t) == pc[t] \in {"tmo", "timer", "start", "count", "clear", "done"}
C5_FetchRetries ==
  \A t \in Threads :
    /\ attempts[t] <= MAX_RETRIES_AT_FAILURE
    /\ sleeps[t] <= MAX_RETRIES_AT_FAILURE - 1
    /\ pc[t] = "fetch" => fetched[t] = None /\ sleeps[t] = attempts[t]
    /\ pc[t] = "sleep" => /\ fetched[t] = None
                          /\ sleeps[t] = attempts[t] - 1
                          /\ attempts[t] < MAX_RETRIES_AT_FAILURE
    /\ PastLoop(t) =>
         /\ attempts[t] >= 1
         /\ sleeps[t] = attempts[t] - 1
         /\ fetched[t] = None =>
              /\ attempts[t] = MAX_RETRIES_AT_FAILURE
              /\ liveData[t] = None
              /\ pc[t] # "raised"
              /\ (PastUploads(t) /\ blynk) => blynkRes[t] # "none"
              /\ (PastUploads(t) /\ nightscout) => nsRes[t] # "none"
              /\ pc[t] = "done" => Cardinality(StartedBy(t)) = 1

\* a cycle has finished after three failed calls and two sleeps, and
\* another one after a failure, a sleep and then a success
C5_Witness ==
  /\ \E t \in Threads :
       pc[t] = "done" /\ fetched[t] = None
         /\ attempts[t] = MAX_RETRIES_AT_FAILURE
         /\ sleeps[t] = MAX_RETRIES_AT_FAILURE - 1
  /\ \E t \in Threads :
       PastLoop(t) /\ fetched[t] # None /\ attempts[t] = 2 /\ sleeps[t] = 1

\* C6: after a successful fetch with corrected sensor timestamp T the
\* timer gets (T + UPDATE_INTERVAL - now) + 10 seconds, and
\* RETRY_INTERVAL exactly when that sum is negative.
C6_ClaimedDelay(T, now) ==
  LET c == IntSeconds(T + UPDATE_INTERVAL * TicksPerSec - now) + TIMER_MARGIN
  IN IF c < 0 THEN RETRY_INTERVAL ELSE c
C6_DelayAfterFetch ==
  \A t \in Threads :
    (fetched[t] # None /\ Ended(t)) =>
      /\ clock[t] # None
      /\ \E k \in StartedBy(t) :
           timers[k].delay =
             C6_ClaimedDelay(Val(liveData[t]).sensorBGLTimestamp, Val(clock[t]))

\* C7 as stated: after a cycle whose fetch attempts all failed the timer
\* gets RETRY_INTERVAL (180) seconds.
C7_Original ==
  \A k \in TimerIds :
    (timers[k].state # "none" /\ fetched[timers[k].by] = None) =>
      timers[k].delay = RETRY_INTERVAL

\* C7 (amended): after a cycle whose fetch attempts all failed the timer
\* gets RETRY_INTERVAL + 10 = 190 seconds, whatever the adapters do.
C7_NoDataDelay ==
  \A k \in TimerIds :
    (timers[k].state # "none" /\ fetched[timers[k].by] = None) =>
      timers[k].delay = RETRY_INTERVAL + TIMER_MARGIN

\* a no-data cycle in which both uploads raised has started its timer
C7_Witness ==
  \E k \in TimerIds :
    /\ timers[k].started /\ fetched[timers[k].by] = None
    /\ attempts[timers[k].by] = MAX_RETRIES_AT_FAILURE
    /\ blynkRes[timers[k].by] = "raised" /\ nsRes[timers[k].by] = "raised"

\* C8: an exception of blynk_upload does not keep nightscout.upload from
\* being attempted in the same cycle, an exception of either upload does
\* not keep the timer from being started, and neither leaves the cycle.
C8_UploadFailuresIsolated ==
  \A t \in Threads :
    (blynkRes[t] = "raised" \/ nsRes[t] = "raised") =>
      /\ pc[t] # "raised"
      /\ (PastUploads(t) /\ nightscout) => nsRes[t] \in {"ok", "raised"}
      /\ pc[t] \in {"count", "clear", "done"} => Cardinality(StartedBy(t)) = 1

\* cycles have finished with their timer started after: blynk raised and
\* nightscout went through; blynk went through and nightscout raised
C8_Witness ==
  \E t, u \in Threads :
    /\ pc[t] = "done" /\ blynkRes[t] = "raised" /\ nsRes[t] = "ok"
    /\ Cardinality(StartedBy(t)) = 1
    /\ pc[u] = "done" /\ blynkRes[u] = "ok" /\ nsRes[u] = "raised"
    /\ Cardinality(StartedBy(u)) = 1

\* C9: once on_sigterm has run, no timer is pending, none gets armed
\* later, and blynk has been disconnected, wherever the signal arrived.
C9_NoTimerAfterSigterm ==
  mainPc = "exited" =>
    /\ \A k \in TimerIds : timers[k].state # "pending"
    /\ blynk => disconnected

\* C10: in every cycle with a successful fetch the drift is applied exactly
\* once: pumpTime is shifted by pumpTimeDrift, sensorBGLTimestamp too
\* unless the reading is the sensor-lost code; nothing is shifted twice.
C10_IsSensorLost(r) ==
  HasAttr(SENSOR_EXCEPTIONS, "SENSOR_LOST") /\ r = SENSOR_EXCEPTIONS["SENSOR_LOST"]
C10_Corrected(d) ==
  [d EXCEPT !.pumpTime = @ + d.pumpTimeDrift,
            !.sensorBGLTimestamp =
               IF C10_IsSensorLost(d.sensorBGL) THEN @ ELSE @ + d.pumpTimeDrift]
C10_DriftAppliedOnce ==
  \A t \in Threads :
    /\ (fetched[t] # None /\ pc[t] \in {"fetch", "sleep", "drift"}) =>
         liveData[t] = fetched[t]
    /\ (fetched[t] # None /\ pc[t] \notin {"fetch", "sleep", "drift"}) =>
         liveData[t] = Some(C10_Corrected(Val(fetched[t])))
    /\ fetched[t] = None => liveData[t] = None

\* ------------------------------------------- what blynk_upload has written
\* a set_property(pin, prop, value) call is among calls
WroteProperty(calls, pin, prop, value) ==
  \E i \in 1 .. Len(calls) :
    /\ calls[i].op = "set_property"
    /\ calls[i].pin = pin
    /\ calls[i].prop = prop
    /\ calls[i].value = value

\* a virtual_write(pin, value) call is among calls
WroteValue(calls, pin, value) ==
  \E i \in 1 .. Len(calls) :
    /\ calls[i].op = "virtual_write"
    /\ calls[i].pin = pin
    /\ calls[i].value = value

\* some virtual_write(pin, ...) call is among calls
WroteTo(calls, pin) ==
  \E i \in 1 .. Len(calls) :
    calls[i].op = "virtual_write" /\ calls[i].pin = pin

\* thread t has called blynk_upload with data and no blynk call raised
Reported(t) == liveData[t] # None /\ blynkRes[t] \in {"ok", "error"}

\* C11: for a non-exception reading the colour written for the BGL value
\* follows the first matching rule: suspend or suspend-low flag, suspended;
\* else out of the low/high range or on-low/on-high flag, alert; else out
\* of the pre-low/pre-high range or before-low/before-high flag,
\* pre-alert; else normal.
C11_Severity(d, c) ==
  LET a == d.pumpAlert IN
  CASE a.alertSuspend \/ a.alertSuspendLow -> BLYNK_BLUE
    [] ~(a.alertSuspend \/ a.alertSuspendLow)
       /\ (d.sensorBGL < c.bgl_low_val \/ d.sensorBGL > c.bgl_high_val
           \/ a.alertOnLow \/ a.alertOnHigh) -> BLYNK_RED
    [] ~(a.alertSuspend \/ a.alertSuspendLow)
       /\ ~(d.sensorBGL < c.bgl_low_val \/ d.sensorBGL > c.bgl_high_val
            \/ a.alertOnLow \/ a.alertOnHigh)
       /\ (d.sensorBGL < c.bgl_pre_low_val \/ d.sensorBGL > c.bgl_pre_high_val
           \/ a.alertBeforeLow \/ a.alertBeforeHigh) -> BLYNK_YELLOW
    [] OTHER -> BLYNK_GREEN
C11_SeverityPrecedence ==
  \A t \in Threads :
    (Reported(t) /\ Val(liveData[t]).sensorBGL < SENSOR_EXCEPTIONS.SENSOR_OK) =>
      WroteProperty(blynkCalls[t], VPIN_SENSOR, "color",
                    C11_Severity(Val(liveData[t]), cfg))

\* C12: a reading that is one of the exception codes, warming up through
\* sensor lost, is reported as a sensor fault whatever the flags and
\* thresholds: the BGL gauge gets no value and no severity colour, the
\* status text is the code's display string after a timestamp; a reading
\* outside these codes is never reported as a sensor fault.
C12_Names ==
  { ExceptionEntries[i][1] : i \in 1 .. Len(ExceptionEntries) } \ {"SENSOR_OK"}
C12_IsCode(r) ==
  \E n \in C12_Names : HasAttr(SENSOR_EXCEPTIONS, n) /\ SENSOR_EXCEPTIONS[n] = r
C12_String(r) ==
  LET i == CHOOSE j \in 1 .. Len(ExceptionEntries) :
             /\ HasAttr(SENSOR_EXCEPTIONS, ExceptionEntries[j][1])
             /\ SENSOR_EXCEPTIONS[ExceptionEntries[j][1]] = r
  IN SENSOR_EXCEPTIONS[ExceptionEntries[i][2]]
C12_Fault(calls) ==
  /\ WroteValue(calls, VPIN_SENSOR, None)
  /\ WroteProperty(calls, VPIN_SENSOR, "color", BLYNK_WHITE)
  /\ WroteProperty(calls, VPIN_STATUS, "color", BLYNK_RED)
C12_ExceptionCodes ==
  \A t \in Threads :
    Reported(t) =>
      LET d == Val(liveData[t]) IN
      /\ \A n \in C12_Names : HasAttr(SENSOR_EXCEPTIONS, n)
      /\ IF C12_IsCode(d.sensorBGL)
           THEN /\ C12_Fault(blynkCalls[t])
                /\ \E now \in NowRange :
                     WroteValue(blynkCalls[t], VPIN_STATUS,
                                <<HHMM(now), " - ", C12_String(d.sensorBGL)>>)
           ELSE ~C12_Fault(blynkCalls[t])

\* C13: an upload with data, stored bolus time T0, bolus time of the data
\* T1: T1 # T0 and now - T1 < 2*UPDATE_INTERVAL, the bolus amount is
\* written and active insulin is not; T1 # T0 and the bolus older, neither
\* is written; T1 = T0, active insulin is written and the bolus amount is
\* not; whenever T1 # T0 the stored time becomes T1.
C13_Recent(T1, now) == EpochSeconds(now) - T1 < 2 * UPDATE_INTERVAL
C13_Step(t) ==
  LET T0 == lastBolusTime
      T1 == EpochSeconds(Val(liveData[t]).lastBolusTime)
      calls == blynkCalls'[t]
  IN (pc[t] = "blynk" /\ liveData[t] # None /\ blynkRes'[t] \in {"ok", "error"}) =>
       IF Some(T1) # T0
         THEN /\ lastBolusTime' = Some(T1)
              /\ ~WroteTo(calls, VPIN_ACTINS)
              /\ \E now \in NowRange :
                   WroteTo(calls, VPIN_LASTBOLUS) <=> C13_Recent(T1, now)
         ELSE /\ WroteTo(calls, VPIN_ACTINS)
              /\ ~WroteTo(calls, VPIN_LASTBOLUS)
C13_BolusEvent == [][\A t \in Threads : C13_Step(t)]_vars

\* C14: the battery reported by an upload follows the parity of cycleCount
\* at the time of the upload: even, the pump battery under the label
\* "PUMP BATTERY %"; odd, the sensor battery under "SENSOR BATTERY %".
C14_BatterySlot ==
  \A t \in Threads :
    Reported(t) =>
      LET d == Val(liveData[t]) IN
      IF cycleCount % 2 = 0
        THEN /\ WroteProperty(blynkCalls[t], VPIN_BATTERY, "label", "PUMP BATTERY %")
             /\ WroteValue(blynkCalls[t], VPIN_BATTERY, <<d.batteryLevelPercentage>>)
        ELSE /\ WroteProperty(blynkCalls[t], VPIN_BATTERY, "label", "SENSOR BATTERY %")
             /\ WroteValue(blynkCalls[t], VPIN_BATTERY, <<d.sensorBatteryLevelPercentage>>)

\* C15: the battery colour is critical up to 25, warning up to 50, normal
\* above; the reservoir colour is critical up to 25 units, warning up to
\* 75, normal above; 25, 50 and 75 belong to the lower band, whatever the
\* colour of the BGL value.
C15_Band(v, critical, warning) ==
  IF v <= critical THEN BLYNK_RED
  ELSE IF v <= warning THEN BLYNK_YELLOW
  ELSE BLYNK_GREEN
C15_Bands ==
  \A t \in Threads :
    Reported(t) =>
      LET d == Val(liveData[t]) IN
      /\ \E v \in {d.batteryLevelPercentage, d.sensorBatteryLevelPercentage} :
           /\ WroteValue(blynkCalls[t], VPIN_BATTERY, <<v>>)
           /\ WroteProperty(blynkCalls[t], VPIN_BATTERY, "color", C15_Band(v, 25, 50))
      /\ WroteProperty(blynkCalls[t], VPIN_UNITS, "color",
                       C15_Band(d.insulinUnitsRemaining, 250, 750))

\* C16: blynk_upload without data makes no call but setting the colour of
\* the status pin to red, writes no value, sets no label, and leaves
\* lastBolusTime as it was.
C16_OnlyStatusColor(calls) ==
  /\ Len(calls) <= 1
  /\ \A i \in 1 .. Len(calls) :
       /\ calls[i].op = "set_property"
       /\ calls[i].pin = VPIN_STATUS
       /\ calls[i].prop = "color"
       /\ calls[i].value = BLYNK_RED
C16_Step(t) ==
  (pc[t] = "blynk" /\ pc'[t] # "blynk" /\ liveData[t] = None) =>
    /\ C16_OnlyStatusColor(blynkCalls'[t])
    /\ blynkRes'[t] = "ok" => Len(blynkCalls'[t]) = 1
    /\ lastBolusTime' = lastBolusTime
C16_NoDataWritesOnlyStatusColor == [][\A t \in Threads : C16_Step(t)]_vars
C16_Witness ==
  /\ liveData[0] = None /\ blynkRes[0] = "ok" /\ hasFailed[0]
  /\ lastBolusTime = Some(0)
  /\ Len(blynkCalls[0]) = 1 /\ blynkCalls[0][1].pin = VPIN_STATUS

\* C17: with bgl_high configured as 0 the comparison "reading > high
\* bound" does not fire for a reading below the exception codes, and a
\* reading at or above the low bounds, no alert flag set, is not coloured
\* alert; with bgl_pre_high configured as 0 the same for "reading >
\* pre-high bound" and the pre-alert colour.
C17_Plain(d) ==
  /\ d.sensorBGL < SENSOR_EXCEPTIONS.SENSOR_OK
  /\ d.pumpAlert = NoAlerts
  /\ d.sensorBGL >= cfg.bgl_low_val
  /\ d.sensorBGL >= cfg.bgl_pre_low_val
C17_ConfiguredZero(option) ==
  \E raw \in RawConfigs : raw[option] = <<0>> /\ cfg = read_config(raw)
C17_HighNeverFires ==
  \A t \in Threads :
    (liveData[t] # None /\ C17_Plain(Val(liveData[t]))) =>
      LET d == Val(liveData[t]) IN
      /\ C17_ConfiguredZero("bgl_high") =>
           /\ ~(d.sensorBGL > cfg.bgl_high_val)
           /\ SensorColor(d, cfg) # BLYNK_RED
           /\ ~WroteProperty(blynkCalls[t], VPIN_SENSOR, "color", BLYNK_RED)
      /\ C17_ConfiguredZero("bgl_pre_high") =>
           /\ ~(d.sensorBGL > cfg.bgl_pre_high_val)
           /\ SensorColor(d, cfg) # BLYNK_YELLOW
           /\ ~WroteProperty(blynkCalls[t], VPIN_SENSOR, "color", BLYNK_YELLOW)
C17_Witness ==
  /\ C17_ConfiguredZero("bgl_high") /\ cfg.bgl_high_val = BGL_DISABLED
  /\ liveData[0] # None /\ C17_Plain(Val(liveData[0]))
  /\ Val(liveData[0]).sensorBGL = SENSOR_EXCEPTIONS.SENSOR_OK - 1
  /\ blynkRes[0] # "none"

\* C18: the steps of a cycle come in one order: guard set, the fetch
\* attempts, drift correction, the blynk upload attempt, the nightscout
\* upload attempt, the delay and the timer, guard cleared.  The guard is
\* set before the first fetch and cleared only after both upload attempts;
\* the two uploads never run at the same time.
C18_Rank(p) ==
  CASE p \in {"idle", "guard"} -> 0
    [] p = "set" -> 1
    [] p \in {"fetch", "sleep"} -> 2
    [] p = "drift" -> 3
    [] p = "blynk" -> 4
    [] p = "nightscout" -> 5
    [] p \in {"tmo", "timer", "start", "count"} -> 6
    [] p = "clear" -> 7
    [] OTHER -> 8
C18_Position(t) ==
  LET r == C18_Rank(pc[t]) IN
  /\ r \in 2 .. 7 => active
  /\ r <= 1 => attempts[t] = 0
  /\ r \in 3 .. 7 => attempts[t] >= 1
  /\ r <= 4 => blynkRes[t] = "none" /\ blynkCalls[t] = << >>
  /\ r <= 5 => nsRes[t] = "none"
  /\ r \in 5 .. 7 => (blynk => blynkRes[t] # "none")
  /\ r \in 6 .. 7 => (nightscout => nsRes[t] # "none")
  /\ pc[t] \notin {"count", "clear", "done"} => StartedBy(t) = {}
  /\ pc[t] \in {"count", "clear", "done"} => Cardinality(StartedBy(t)) = 1
C18_Move(t) ==
  LET r == C18_Rank(pc[t]) IN
  /\ (r \in 1 .. 7 /\ pc'[t] # pc[t]) =>
       \/ C18_Rank(pc'[t]) = r + 1
       \/ C18_Rank(pc'[t]) = r /\ r \in {2, 6}
       \/ pc'[t] = "raised"
  /\ (pc[t] = "guard" /\ pc'[t] # pc[t]) => pc'[t] \in {"set", "returned"}
C18_GuardMove ==
  /\ (~active /\ active') => \E t \in Threads : pc[t] = "set" /\ pc'[t] = "fetch"
  /\ (active /\ ~active') => \E t \in Threads : pc[t] = "clear" /\ pc'[t] = "done"
C18_StepOrder ==
  /\ [](/\ \A t \in Threads : C18_Position(t)
        /\ Cardinality({t \in Threads : pc[t] \in {"blynk", "nightscout"}}) <= 1)
  /\ [][C18_GuardMove /\ \A t \in Threads : C18_Move(t)]_vars
C18_Witness ==
  \E t \in Threads :
    /\ pc[t] = "done" /\ ~active
    /\ attempts[t] = MAX_RETRIES_AT_FAILURE /\ sleeps[t] = MAX_RETRIES_AT_FAILURE - 1
    /\ blynkRes[t] = "ok" /\ nsRes[t] = "raised"
    /\ \E k \in StartedBy(t) : timers[k].state = "pending"

\* C19: at most one timer is armed and not yet fired; an invocation runs
\* in the start-up thread or in the thread of a fired timer, and arms at
\* most one timer.
C19_AtMostOneTimerArmed ==
  /\ Cardinality({k \in TimerIds : timers[k].state = "pending"}) <= 1
  /\ \A k \in TimerIds : pc[k] # "idle" => timers[k].state = "fired"
  /\ \A t \in Threads : Cardinality(StartedBy(t)) <= 1
C19_Witness ==
  \E k \in TimerIds :
    /\ timers[k].state = "pending" /\ timers[k].by # 0
    /\ timers[timers[k].by].state = "fired"
    /\ pc[timers[k].by] = "done"

\* C20: without a termination signal and without an unhandled error the
\* chain of cycles goes on: a timer is armed, or an invocation is on its
\* way to arm one, also when a timer fires before the invocation that
\* armed it has cleared the guard.
C20_OnItsWay(t) ==
  pc[t] \in {"guard", "set", "fetch", "sleep", "drift", "blynk", "nightscout",
             "tmo", "timer", "start"}
C20_ChainGoesOn ==
  (mainPc = "run" /\ \A t \in Threads : pc[t] # "raised") =>
    \/ \E k \in TimerIds : timers[k].state = "pending"
    \/ \E t \in Threads : C20_OnItsWay(t)

\* C21: over consecutive uploads that see the same bolus time the bolus
\* amount is written at most once, by the first of them.  Step by step:
\* whatever the upload finds stored, it leaves the bolus time of its data
\* stored, recent or not; an upload that finds the bolus time of its data
\* already stored (an earlier upload saw it) does not write the bolus
\* amount; an upload that finds nothing stored (the first after start-up)
\* takes the branch of a changed bolus time, not that of active insulin.
C21_Step(t) ==
  LET T1 == EpochSeconds(Val(liveData[t]).lastBolusTime)
      calls == blynkCalls'[t]
  IN (pc[t] = "blynk" /\ liveData[t] # None /\ blynkRes'[t] \in {"ok", "error"}) =>
       /\ lastBolusTime' = Some(T1)
       /\ lastBolusTime = Some(T1) => ~WroteTo(calls, VPIN_LASTBOLUS)
       /\ lastBolusTime = None => ~WroteTo(calls, VPIN_ACTINS)
C21_BolusOncePerRun == [][\A t \in Threads : C21_Step(t)]_vars

====
